---- MODULE Spec2Model ----
(***************************************************************************)
(* AutoReceipt backend: the prefill resolver (app/antrag.py), the profile  *)
(* ingestion and the verification-session workflow (app/main.py).          *)
(*                                                                         *)
(* Python strings are sequences of one-character strings, None is the      *)
(* one-element sequence <<"None">>, a dict is a function whose domain is   *)
(* its key set.                                                            *)
(***************************************************************************)
EXTENDS Integers, Sequences, FiniteSets, TLC

VARIABLES
    \* ---- resolver run (antrag.main) ----
    user_profile,      \* the Optional[Dict] handed to antrag(...): [isNone, d]
    other_profile,     \* a second profile input, resolved against the same pdf_dict
    pdf_dict,          \* fillpdfs.get_form_fields(Dienstreiseantrag.pdf)
    supervisor_name,   \* antrag.main's argument
    abrechnung_json,   \* field set written by antrag.main for user_profile
    other_json,        \* field set written by antrag.main for other_profile
    focus,             \* the request-form key whose inputs this run varies
    cli_json,          \* field set built by the command-line antrag.main (src/antrag.py)
    first_form,        \* filled_form.pdf as the first run of antrag.main wrote it
    again_form,        \* filled_form.pdf as a second run on the same inputs wrote it
    \* ---- profile ingestion (extract_trip, process_trip) ----
    raw_profile,           \* the user_profile form field: [kind, d]
    parsed_user_profile,   \* what the endpoint hands to antrag(...)
    ingest_endpoint,       \* the endpoint that parsed it
    \* ---- verification-session workflow (app/main.py) ----
    verification_sessions, \* session_id -> session record
    temp_dirs,             \* the session ids whose mkdtemp directory exists
    request_pc,            \* where the extract_trip call that owns an id stands
    uploads,               \* uploads/Dienstreiseantrag.pdf: the request that wrote it
    filled_form,           \* templates/filled_form.pdf
    output_form,           \* output/output_form.pdf
    GEMINI_API_KEY,        \* whether the environment holds the credential
    response,              \* the response of the request that completed last
    removed,               \* history: ids deleted from verification_sessions
    submitted,             \* history: ids a submit_verified found in the table
    process_pc,            \* where the process_trip call in flight stands
    process_temp_dir,      \* whether process_trip's TemporaryDirectory exists
    errors,                \* the errors list of the response that completed last
    raised,                \* history: a step of that request raised an exception
    main_entered,          \* history: the requests in which an extractor's main began
    cleanup_pending,       \* a cleanup_output background task is scheduled
    output_cleaned,        \* history: cleanup_output ran and no request has answered ok since
    \* ---- one receipt extraction (hinreise.py, ruckreise.py, hotel.py) ----
    extractor,             \* the class whose main runs
    gemini_response_text,  \* what the vision model answered
    extracted_data,        \* what main returned
    reported,              \* what extract_trip hands to the caller for it
    \* ---- document preparation (hinreise.prepare_all_documents) ----
    document_paths_list,   \* the documents handed to prepare_all_documents
    doc_index,             \* how many of them the loop has prepared
    all_image_parts,       \* the payloads collected so far
    \* ---- the fallback of submit_verified (main.py lines 294-323) ----
    fallback_session,       \* the session record submit_verified found
    instance_extracted_data, \* category -> extracted_data of the extractor instance
    fallback_pc,           \* how many of the three categories have been handled
    \* ---- one pipeline run, step by step (main.py lines 203-222, 474-492) ----
    pipeline_input,        \* what the run meets: credential, request form, receipts
    pipeline_pc,           \* the step the run is about to take
    steps,                 \* the steps started so far: [step, finished]
    hinreise_response,     \* hinreise_instance.response
    ruckreise_response     \* ruckreise_instance.response

resolveVars == <<user_profile, other_profile, pdf_dict, supervisor_name,
                 abrechnung_json, other_json, focus, cli_json, first_form, again_form>>

ingestVars == <<raw_profile, parsed_user_profile, ingest_endpoint>>

sessionVars == <<verification_sessions, temp_dirs, request_pc, uploads, filled_form,
                 output_form, GEMINI_API_KEY, response, removed, submitted,
                 process_pc, process_temp_dir, errors, raised, main_entered,
                 cleanup_pending, output_cleaned>>

\* what only the download endpoint and its clean-up write
downloadVars == <<cleanup_pending, output_cleaned>>

extractVars == <<extractor, gemini_response_text, extracted_data, reported>>

prepareVars == <<document_paths_list, doc_index, all_image_parts>>

fallbackVars == <<fallback_session, instance_extracted_data, fallback_pc>>

pipelineVars == <<pipeline_input, pipeline_pc, steps, hinreise_response, ruckreise_response>>

vars == <<resolveVars, ingestVars, sessionVars, extractVars, prepareVars, fallbackVars,
          pipelineVars>>

-----------------------------------------------------------------------------
(* Bounds *)

\* longest profile / request-form string drawn as an input
MaxLen == 2

\* number of extract_trip calls, each with its own uuid4 session id
MaxSessions == 2

-----------------------------------------------------------------------------
(* Python values *)

None == <<"None">>

\* characters str.strip() removes
Whitespace == {" "}

\* characters of profile strings and of request-form strings
PChars == {" ", "p"}
AChars == {" ", "a"}

StringsOver(chars, n) == UNION {[1..k -> chars] : k \in 0..n}

\* bool(v) for a value that is None or a str
Truthy(v) == v # None /\ v # <<>>

\* v or ''
OrEmpty(v) == IF Truthy(v) THEN v ELSE <<>>

RECURSIVE LStrip(_)
LStrip(s) == IF s # <<>> /\ Head(s) \in Whitespace THEN LStrip(Tail(s)) ELSE s

RECURSIVE RStrip(_)
RStrip(s) ==
    IF s # <<>> /\ s[Len(s)] \in Whitespace
    THEN RStrip(SubSeq(s, 1, Len(s) - 1))
    ELSE s

\* str.strip()
Strip(s) == RStrip(LStrip(s))

\* s[:n]
Prefix(s, n) == SubSeq(s, 1, IF Len(s) < n THEN Len(s) ELSE n)

EmptyDict == [k \in {} |-> None]

\* dict.get(k)
Get(d, k) == IF k \in DOMAIN d THEN d[k] ELSE None

-----------------------------------------------------------------------------
(* app/antrag.py *)

ProfileFields == {"full_name", "phone_number", "email", "postal_address", "institute"}

\* UserProfile.__init__: None becomes {}, each field is (data.get(f) or '').strip()
UserProfile(data) ==
    LET d == IF data.isNone THEN EmptyDict ELSE data.d
    IN  [f \in ProfileFields |-> Strip(OrEmpty(Get(d, f)))]

\* the mutant keeps the request-form value whenever there is one
GetPrefilledValueAntragFirst(profile_value, antrag_value) ==
    IF Truthy(antrag_value) THEN Strip(antrag_value)
    ELSE IF Truthy(profile_value) /\ Truthy(Strip(profile_value))
         THEN Strip(profile_value) ELSE <<>>

\* the mutant returns the fallback value untrimmed
GetPrefilledValueNoStrip(profile_value, antrag_value) ==
    IF Truthy(profile_value) /\ Truthy(Strip(profile_value))
    THEN Strip(profile_value)
    ELSE IF Truthy(antrag_value) THEN antrag_value ELSE <<>>

\* antrag._get_prefilled_value
GetPrefilledValue(profile_value, antrag_value) ==
    IF Truthy(profile_value) /\ Truthy(Strip(profile_value))
    THEN Strip(profile_value)
    ELSE IF Truthy(antrag_value) THEN Strip(antrag_value) ELSE <<>>

\* the identity fields: output key, profile attribute, request-form key
IdentityKeys == {"AntragstellerIn_Name_Vorname", "E-Mail-dienstlich", "Telefon_dienstlich",
                 "Private_Anschrift_Strasse_PLZ_Wohnort",
                 "BeschaeftigungsstelleInstitut_einschl_Anschrift"}

ProfileAttrOf(k) ==
    CASE k = "AntragstellerIn_Name_Vorname" -> "full_name"
      [] k = "E-Mail-dienstlich" -> "email"
      [] k = "Telefon_dienstlich" -> "phone_number"
      [] k = "Private_Anschrift_Strasse_PLZ_Wohnort" -> "postal_address"
      [] k = "BeschaeftigungsstelleInstitut_einschl_Anschrift" -> "institute"

AntragKeyOf(k) ==
    CASE k = "AntragstellerIn_Name_Vorname" -> "Name Vorname"
      [] k = "E-Mail-dienstlich" -> "EMa Adresse"
      [] k = "Telefon_dienstlich" -> "Telefon dienstlich"
      [] k = "Private_Anschrift_Strasse_PLZ_Wohnort" -> "Wohnort"
      [] k = "BeschaeftigungsstelleInstitut_einschl_Anschrift" -> "Institut"
      [] k = "Kreditinstitut" -> "Kreditinstitut"
      [] k = "BIC" -> "BIC"
      [] k = "BAN" -> "IBAN"

BankKeys == {"Kreditinstitut", "BIC", "BAN"}

\* the mutant lets a bank key of the profile override the request form
BankValueProfileFirst(data, pdf, k) ==
    LET d == IF data.isNone THEN EmptyDict ELSE data.d
    IN  IF AntragKeyOf(k) \in DOMAIN d THEN d[AntragKeyOf(k)]
        ELSE Get(pdf, AntragKeyOf(k))

\* antrag.main, the bank fields: pdf_dict.get(...) alone
BankValue(data, pdf, k) == Get(pdf, AntragKeyOf(k))

\* the mutant copies the daily-allowance flag from the request form
TagegeldFromRequest(data, pdf) == Get(pdf, "Tagegeld")

\* antrag.main, line 175: "Tagegeld": "nein"
Tagegeld(data, pdf) == <<"n", "e", "i", "n">>

\* antrag.main: the field set handed to write_fillable_pdf
AntragMain(data, pdf, supervisor) ==
    LET profile == UserProfile(data)
        kostenstelle == OrEmpty(Get(pdf, "Kostenstelle"))
        datum_6 == OrEmpty(Get(pdf, "Datum_6"))
        approval == datum_6 \o <<" ">>
    IN  [k \in IdentityKeys \cup BankKeys \cup
               {"Tagegeld", "Drittmittelprojekt", "Genehmigung_der_Dienstreise_am__von"} |->
            IF k \in IdentityKeys
                THEN GetPrefilledValue(profile[ProfileAttrOf(k)], Get(pdf, AntragKeyOf(k)))
            ELSE IF k \in BankKeys THEN BankValue(data, pdf, k)
            ELSE IF k = "Tagegeld" THEN Tagegeld(data, pdf)
            ELSE IF k = "Drittmittelprojekt" THEN <<"P">> \o kostenstelle
            ELSE IF Truthy(supervisor) THEN Prefix(approval, 11) \o supervisor
            ELSE approval]

-----------------------------------------------------------------------------
(* Parts of the state a specification does not exercise *)

NoProfile == [isNone |-> TRUE, d |-> EmptyDict]

Dict(d) == [isNone |-> FALSE, d |-> d]

NotRun == [notrun |-> TRUE]

\* a call that ended with an exception
Raised == [raised |-> TRUE]

IdleResolve ==
    /\ user_profile = NoProfile
    /\ other_profile = NoProfile
    /\ pdf_dict = EmptyDict
    /\ supervisor_name = None
    /\ abrechnung_json = NotRun
    /\ other_json = NotRun
    /\ focus = "Name Vorname"
    /\ cli_json = NotRun
    /\ first_form = NotRun
    /\ again_form = NotRun

IdleIngest ==
    /\ raw_profile = [kind |-> "absent", d |-> EmptyDict]
    /\ parsed_user_profile = NotRun
    /\ ingest_endpoint = "none"

NoFile == [nofile |-> TRUE]

NoUpload == 0

NoResponse == [op |-> "none", status |-> "none"]

IdlePrepare ==
    /\ document_paths_list = <<>>
    /\ doc_index = 0
    /\ all_image_parts = <<>>

IdlePipeline ==
    /\ pipeline_input = NotRun
    /\ pipeline_pc = "done"
    /\ steps = <<>>
    /\ hinreise_response = "unset"
    /\ ruckreise_response = "unset"

IdleFallback ==
    /\ fallback_session = NotRun
    /\ instance_extracted_data = NotRun
    /\ fallback_pc = 0

IdleExtract ==
    /\ extractor = "none"
    /\ gemini_response_text = NotRun
    /\ extracted_data = NotRun
    /\ reported = NotRun

IdleSession ==
    /\ verification_sessions = EmptyDict
    /\ temp_dirs = {}
    /\ request_pc = EmptyDict
    /\ uploads = NoUpload
    /\ filled_form = NoFile
    /\ output_form = NoFile
    /\ GEMINI_API_KEY = TRUE
    /\ response = NoResponse
    /\ removed = {}
    /\ submitted = {}
    /\ process_pc = "idle"
    /\ process_temp_dir = FALSE
    /\ errors = <<>>
    /\ raised = FALSE
    /\ main_entered = {}
    /\ cleanup_pending = FALSE
    /\ output_cleaned = FALSE

-----------------------------------------------------------------------------
(* One resolver run: antrag(user_profile=...).main(supervisor_name) *)

PdfKeys == {"Name Vorname", "EMa Adresse", "Telefon dienstlich", "Wohnort", "Institut",
            "Kreditinstitut", "BIC", "IBAN", "Kostenstelle", "Datum_6"}

\* the profile key that competes with a request-form key: the profile attribute of
\* an identity field, and the key itself otherwise (a profile that carries it)
ProfileKeyFor(pk) ==
    CASE pk = "Name Vorname" -> "full_name"
      [] pk = "EMa Adresse" -> "email"
      [] pk = "Telefon dienstlich" -> "phone_number"
      [] pk = "Wohnort" -> "postal_address"
      [] pk = "Institut" -> "institute"
      [] OTHER -> pk

\* the request form's values apart from the key under focus: one distinct
\* non-empty string per key
DefaultPdfValue(pk) ==
    CASE pk = "Name Vorname" -> <<"n">>
      [] pk = "EMa Adresse" -> <<"e">>
      [] pk = "Telefon dienstlich" -> <<"t">>
      [] pk = "Wohnort" -> <<"w">>
      [] pk = "Institut" -> <<"i">>
      [] pk = "Kreditinstitut" -> <<"k">>
      [] pk = "BIC" -> <<"c">>
      [] pk = "IBAN" -> <<"b">>
      [] pk = "Kostenstelle" -> <<"4">>
      [] pk = "Datum_6" -> <<"d">>

ProfileValues == StringsOver(PChars, MaxLen) \cup {None}
AntragValues == StringsOver(AChars, MaxLen)

\* profiles that carry bank keys
BankProfiles ==
    {Dict([k \in {"IBAN", "BIC", "Kreditinstitut"} |-> <<"p">>]),
     Dict([k \in {"iban", "full_name"} |-> <<"p", "p">>])}

SupervisorNames == {None, <<>>, <<"s">>}

\* a date as the request form holds it in Datum_6, alone and followed by the
\* supervisor's name
Date == <<"0", "1", ".", "0", "2", ".", "2", "0", "2", "4">>
DateValues == {Date, Date \o <<" ">>, Date \o <<" ", "o">>, Date \o <<" ", "o", "l", "d">>}

\* the values drawn for the request-form key pk
AntragValuesFor(pk) == IF pk = "Datum_6" THEN AntragValues \cup DateValues ELSE AntragValues

\* the mutant fills the existing filled_form.pdf in place
WriteFilledFormInPlace(existing, fields) ==
    IF existing = NoFile THEN fields
    ELSE [k \in DOMAIN existing \cup DOMAIN fields |->
             IF k \in DOMAIN fields THEN fields[k] ELSE existing[k]]

\* antrag.main, lines 118-119 and 185-187: an existing filled_form.pdf is removed
\* and the blank template is written with the field set
WriteFilledForm(existing, fields) == fields

\* the command-line antrag.main (src/antrag.py): every field is pdf_dict.get(...);
\* "P" + None and None + " " raise TypeError.  answer is the reply to the prompt
\* of line 25: None for "y", otherwise "n" followed by the new supervisor name.
CliAntragMain(pdf, answer) ==
    IF Get(pdf, "Kostenstelle") = None \/ Get(pdf, "Datum_6") = None THEN Raised
    ELSE LET approval == Get(pdf, "Datum_6") \o <<" ">>
         IN  [k \in IdentityKeys \cup BankKeys \cup
                    {"Tagegeld", "Drittmittelprojekt", "Genehmigung_der_Dienstreise_am__von"} |->
                 IF k \in IdentityKeys \cup BankKeys THEN Get(pdf, AntragKeyOf(k))
                 ELSE IF k = "Tagegeld" THEN <<"n", "e", "i", "n">>
                 ELSE IF k = "Drittmittelprojekt" THEN <<"P">> \o Get(pdf, "Kostenstelle")
                 ELSE IF answer # None THEN Prefix(approval, 11) \o answer
                 ELSE approval]

\* what a later pipeline step (hotel.main) adds to filled_form.pdf
ReceiptFields == [Kosten_Unterkunft |-> <<"9">>]

\* the filled_form.pdf a run of antrag.main may find: none, or the form of an
\* earlier request with its receipt fields
Leftovers == {NoFile, [Tagegeld |-> <<"j", "a">>, Kosten_Unterkunft |-> <<"9">>]}

InitResolve ==
    /\ focus \in PdfKeys
    /\ cli_json = NotRun
    /\ first_form = NotRun
    /\ again_form = NotRun
    /\ \E present \in BOOLEAN, av \in AntragValuesFor(focus) :
          pdf_dict = [pk \in (IF present THEN PdfKeys ELSE PdfKeys \ {focus}) |->
                         IF pk = focus THEN av ELSE DefaultPdfValue(pk)]
    /\ user_profile \in {NoProfile, Dict(EmptyDict)} \cup
                        {Dict([k \in {ProfileKeyFor(focus)} |-> pv]) : pv \in ProfileValues}
    /\ other_profile \in {NoProfile} \cup BankProfiles
    /\ supervisor_name \in SupervisorNames
    /\ abrechnung_json = NotRun
    /\ other_json = NotRun
    /\ IdleIngest
    /\ IdleSession
    /\ IdleExtract
    /\ IdlePrepare
    /\ IdleFallback
    /\ IdlePipeline

\* antrag(user_profile=user_profile).main(supervisor_name)
Resolve ==
    /\ abrechnung_json = NotRun
    /\ abrechnung_json' = AntragMain(user_profile, pdf_dict, supervisor_name)
    /\ \E existing \in Leftovers : first_form' = WriteFilledForm(existing, abrechnung_json')
    /\ UNCHANGED <<user_profile, other_profile, pdf_dict, supervisor_name, other_json, focus,
                   cli_json, again_form>>
    /\ UNCHANGED <<ingestVars, sessionVars, extractVars, prepareVars, fallbackVars, pipelineVars>>

\* antrag(user_profile=other_profile).main(supervisor_name) on the same request form
ResolveOther ==
    /\ other_json = NotRun
    /\ other_json' = AntragMain(other_profile, pdf_dict, supervisor_name)
    /\ UNCHANGED <<user_profile, other_profile, pdf_dict, supervisor_name,
                   abrechnung_json, focus, cli_json, first_form, again_form>>
    /\ UNCHANGED <<ingestVars, sessionVars, extractVars, prepareVars, fallbackVars, pipelineVars>>

\* antrag(user_profile=user_profile).main(supervisor_name) once more, on the same
\* inputs, after the receipts of the first run were filled in or with the file
\* of another request in place
ResolveAgain ==
    /\ first_form # NotRun
    /\ again_form = NotRun
    /\ \E existing \in Leftovers \cup {[k \in DOMAIN first_form \cup DOMAIN ReceiptFields |->
                                          IF k \in DOMAIN ReceiptFields THEN ReceiptFields[k]
                                          ELSE first_form[k]]} :
          again_form' = WriteFilledForm(existing,
                                        AntragMain(user_profile, pdf_dict, supervisor_name))
    /\ UNCHANGED <<user_profile, other_profile, pdf_dict, supervisor_name,
                   abrechnung_json, other_json, focus, cli_json, first_form>>
    /\ UNCHANGED <<ingestVars, sessionVars, extractVars, prepareVars, fallbackVars, pipelineVars>>

\* the command-line antrag().main() on the same request form
ResolveCli ==
    /\ cli_json = NotRun
    /\ cli_json' = CliAntragMain(pdf_dict, supervisor_name)
    /\ UNCHANGED <<user_profile, other_profile, pdf_dict, supervisor_name,
                   abrechnung_json, other_json, focus, first_form, again_form>>
    /\ UNCHANGED <<ingestVars, sessionVars, extractVars, prepareVars, fallbackVars, pipelineVars>>

NextResolve == Resolve \/ ResolveOther \/ ResolveAgain \/ ResolveCli

SpecResolve == InitResolve /\ [][NextResolve]_vars

-----------------------------------------------------------------------------
(* Claims on the resolver *)

\* the raw profile value of an identity field, None when the profile lacks it
RawProfileValue(data, k) ==
    Get(IF data.isNone THEN EmptyDict ELSE data.d, ProfileAttrOf(k))

NonEmptyAfterTrim(v) == Truthy(v) /\ Strip(v) # <<>>

\* C1: for every identity field, a profile value that is non-empty after trimming
\* is the resolved value (trimmed), whatever the request form holds.
C1_ProfilePrecedence ==
    abrechnung_json # NotRun =>
        \A k \in IdentityKeys :
            NonEmptyAfterTrim(RawProfileValue(user_profile, k)) =>
                abrechnung_json[k] = Strip(RawProfileValue(user_profile, k))

\* a run where the profile value has surrounding blanks and the request form holds
\* another non-empty value for the same field
C1_Witness ==
    /\ abrechnung_json # NotRun
    /\ \E k \in IdentityKeys :
          /\ RawProfileValue(user_profile, k) = <<" ", "p">>
          /\ Get(pdf_dict, AntragKeyOf(k)) = <<"a", "a">>
          /\ abrechnung_json[k] = <<"p">>

\* C2: every bank field is the request form's value, and two runs on the same
\* request form with different profiles agree on the bank fields.
C2_BankFromRequestOnly ==
    /\ abrechnung_json # NotRun =>
          \A k \in BankKeys : abrechnung_json[k] = Get(pdf_dict, AntragKeyOf(k))
    /\ other_json # NotRun =>
          \A k \in BankKeys : other_json[k] = Get(pdf_dict, AntragKeyOf(k))
    /\ (abrechnung_json # NotRun /\ other_json # NotRun) =>
          \A k \in BankKeys : abrechnung_json[k] = other_json[k]

\* both runs done, the two profiles differ, both carry the bank key the request
\* form also holds
C2_Witness ==
    /\ abrechnung_json # NotRun
    /\ other_json # NotRun
    /\ user_profile # other_profile
    /\ ~user_profile.isNone /\ ~other_profile.isNone
    /\ "IBAN" \in DOMAIN user_profile.d /\ "IBAN" \in DOMAIN other_profile.d
    /\ user_profile.d["IBAN"] = <<"p", "p">>
    /\ Get(pdf_dict, "IBAN") = <<"a">>
    /\ abrechnung_json["BAN"] = <<"a">>

\* C3: an identity field whose profile value is absent or trims to the empty string
\* resolves to the trimmed request-form value, and to "" when the form has none.
C3_FallbackToRequest ==
    abrechnung_json # NotRun =>
        \A k \in IdentityKeys :
            ~NonEmptyAfterTrim(RawProfileValue(user_profile, k)) =>
                abrechnung_json[k] =
                    (IF Truthy(Get(pdf_dict, AntragKeyOf(k)))
                     THEN Strip(Get(pdf_dict, AntragKeyOf(k))) ELSE <<>>)

\* a blank profile value falls back to a request-form value with surrounding blanks
C3_Witness ==
    /\ abrechnung_json # NotRun
    /\ \E k \in IdentityKeys :
          /\ RawProfileValue(user_profile, k) = <<" ">>
          /\ Get(pdf_dict, AntragKeyOf(k)) = <<"a", " ">>
          /\ abrechnung_json[k] = <<"a">>

\* the request form lacks the field and the profile has nothing for it either
C3_WitnessAbsent ==
    /\ abrechnung_json # NotRun
    /\ \E k \in IdentityKeys :
          /\ RawProfileValue(user_profile, k) = None
          /\ AntragKeyOf(k) \notin DOMAIN pdf_dict
          /\ abrechnung_json[k] = <<>>

-----------------------------------------------------------------------------
(* Profile ingestion: app/main.py, extract_trip and process_trip *)

\* the keys a profile form field is drawn over
ProfileInputKeys == {"full_name", "email", "bic", "BIC", "iban", "IBAN", "Iban",
                     "kreditinstitut", "Kreditinstitut", "bank", "Bank"}

\* str.lower() on those keys
Lower(k) ==
    CASE k \in {"bic", "BIC"} -> "bic"
      [] k \in {"iban", "IBAN", "Iban"} -> "iban"
      [] k \in {"kreditinstitut", "Kreditinstitut"} -> "kreditinstitut"
      [] k \in {"bank", "Bank"} -> "bank"
      [] OTHER -> k

forbidden_fields == <<"bic", "iban", "kreditinstitut", "bank">>

\* dict.pop(k, None)
Pop(d, k) == [x \in DOMAIN d \ {k} |-> d[x]]

\* the loop over forbidden_fields: a field found among the lower-cased keys is
\* popped under its own (lower-case) name
RECURSIVE RejectForbidden(_, _)
RejectForbidden(d, i) ==
    IF i > Len(forbidden_fields) THEN d
    ELSE RejectForbidden(
            IF forbidden_fields[i] \in {Lower(k) : k \in DOMAIN d}
            THEN Pop(d, forbidden_fields[i]) ELSE d,
            i + 1)


\* the mutant lets the JSONDecodeError of a malformed profile escape
ParseUserProfileStrict(raw) ==
    CASE raw.kind \in {"absent", "empty"} -> NoProfile
      [] raw.kind \in {"invalid", "nondict"} -> Raised
      [] raw.kind = "dict" -> Dict(RejectForbidden(raw.d, 1))

\* "Parse user profile if provided": a missing or empty form field and a string
\* that is not JSON give None; JSON that is no object raises at .keys()
ParseUserProfile(raw) ==
    CASE raw.kind \in {"absent", "empty", "invalid"} -> NoProfile
      [] raw.kind = "nondict" -> Raised
      [] raw.kind = "dict" -> Dict(RejectForbidden(raw.d, 1))

RawProfiles ==
    {[kind |-> kd, d |-> EmptyDict] : kd \in {"absent", "empty", "invalid", "nondict"}}
    \cup {[kind |-> "dict", d |-> [k \in S |-> <<"p">>]] : S \in SUBSET ProfileInputKeys}

InitIngest ==
    /\ raw_profile \in RawProfiles
    /\ parsed_user_profile = NotRun
    /\ ingest_endpoint = "none"
    /\ IdleResolve
    /\ IdleSession
    /\ IdleExtract
    /\ IdlePrepare
    /\ IdleFallback
    /\ IdlePipeline

\* extract_trip, lines 186-200
ExtractTripParseProfile ==
    /\ parsed_user_profile = NotRun
    /\ parsed_user_profile' = ParseUserProfile(raw_profile)
    /\ ingest_endpoint' = "extract_trip"
    /\ UNCHANGED raw_profile
    /\ UNCHANGED <<resolveVars, sessionVars, extractVars, prepareVars, fallbackVars, pipelineVars>>

\* process_trip, lines 459-472
ProcessTripParseProfile ==
    /\ parsed_user_profile = NotRun
    /\ parsed_user_profile' = ParseUserProfile(raw_profile)
    /\ ingest_endpoint' = "process_trip"
    /\ UNCHANGED raw_profile
    /\ UNCHANGED <<resolveVars, sessionVars, extractVars, prepareVars, fallbackVars, pipelineVars>>

NextIngest == ExtractTripParseProfile \/ ProcessTripParseProfile

SpecIngest == InitIngest /\ [][NextIngest]_vars

\* C4: the profile mapping handed to the resolver holds no key that equals bic,
\* iban, kreditinstitut or bank when compared case-insensitively.
C4_NoBankKeyReachesResolver ==
    (parsed_user_profile # NotRun /\ parsed_user_profile # Raised) =>
        \A k \in DOMAIN parsed_user_profile.d :
            Lower(k) \notin {forbidden_fields[i] : i \in DOMAIN forbidden_fields}

-----------------------------------------------------------------------------
(* The verification-session workflow: app/main.py, extract_trip and        *)
(* submit_verified.                                                        *)
(*                                                                         *)
(* Both handlers are coroutines on one event loop: a handler runs without  *)
(* interruption between two awaits.  extract_trip awaits the upload reads  *)
(* (lines 155, 166, 179); submit_verified awaits nothing.                  *)
(*                                                                         *)
(* main.py constructs hinreise(response, data_dir=...), calls              *)
(* main(fill_pdf=False) on the three extractors and calls                  *)
(* fill_with_verified_data on them.  Of the extractor files only hotel.py  *)
(* has a constructor and a main(fill_pdf) that fit these calls, and none   *)
(* defines fill_with_verified_data: the extractor revision main.py is      *)
(* written against is not among the sources.  The calls are modelled by    *)
(* what the present revisions do (_setup_gemini, the parsing at the end of *)
(* main, hotel.fill_pdf_directly) and by the design document.              *)
(*                                                                         *)
(* shutil.rmtree and os.remove are taken to succeed.                       *)
(***************************************************************************)

Sids == 1..MaxSessions

Categories == {"hinreise", "ruckreise", "hotel"}

\* the mapping an extractor returns: {} or one receipt's fields; a response whose
\* first list element is no JSON object comes back as that element (NonDict)
EmptyData == EmptyDict
ExtractedFields == [cost |-> "x"]
NonDict == [nondict |-> TRUE]

\* {**a, **b}
Merge(a, b) == [k \in DOMAIN a \cup DOMAIN b |-> IF k \in DOMAIN b THEN b[k] ELSE a[k]]

\* the outcomes of an extractor's main(fill_pdf=False):
\*   "empty"   no documents, no response, text that is not JSON, an empty list
\*   "dict"    a list whose first element is an object
\*   "nondict" a list whose first element is a string or a number
\*   "raise"   JSON that is no list (parsed_response[0] raises KeyError or TypeError)
ExtractorOutcomes == {"empty", "dict", "nondict", "raise"}

\* the outcomes of the three extractors that one extract_trip call is drawn over
ExtractorCases ==
    {[hinreise |-> "empty", ruckreise |-> "empty", hotel |-> "empty"],
     [hinreise |-> "dict", ruckreise |-> "dict", hotel |-> "dict"],
     [hinreise |-> "dict", ruckreise |-> "empty", hotel |-> "empty"],
     [hinreise |-> "dict", ruckreise |-> "dict", hotel |-> "nondict"],
     [hinreise |-> "dict", ruckreise |-> "raise", hotel |-> "empty"]}

DataOf(outcome) ==
    CASE outcome = "dict" -> ExtractedFields
      [] outcome = "nondict" -> NonDict
      [] OTHER -> EmptyData

\* the form antrag.main writes from the upload it finds: the request-form part alone
FreshForm(upload) ==
    [antrag |-> upload, hinreise |-> EmptyData, ruckreise |-> EmptyData, hotel |-> EmptyData]

InitSession ==
    /\ verification_sessions = EmptyDict
    /\ temp_dirs = {}
    /\ request_pc = [sid \in Sids |-> "new"]
    /\ uploads = NoUpload
    /\ filled_form = NoFile
    /\ output_form = NoFile
    /\ GEMINI_API_KEY \in BOOLEAN
    /\ response = NoResponse
    /\ removed = {}
    /\ submitted = {}
    /\ process_pc = "idle"
    /\ process_temp_dir = FALSE
    /\ errors = <<>>
    /\ raised = FALSE
    /\ main_entered = {}
    /\ cleanup_pending = FALSE
    /\ output_cleaned = FALSE

ExtractResponse(sid, status) == [op |-> "extract_trip", status |-> status]

\* errors.append(f"Pipeline processing error: {e}"), lines 227 and 495
PipelineProcessingError(errs) == Append(errs, "Pipeline processing error")

\* the mutant returns the error response without the appended message
UnexpectedErrorDropped(errs) == errs

\* errors.append(f"Unexpected error: {e}"), lines 264, 369 and 546
UnexpectedError(errs) == Append(errs, "Unexpected error")

\* errors.append("Filled form was not generated"), lines 361 and 538
NotGenerated(errs) == Append(errs, "Filled form was not generated")

\* errors=errors if errors else None
NoErrors == <<>>

\* extract_trip, lines 137-158: a fresh uuid4, its mkdtemp directory, and the request
\* form written to uploads/Dienstreiseantrag.pdf.  (The await of line 155 sits between
\* mkdtemp and the write; no other handler reads a directory that is in no session
\* yet, so the two halves are one step.)  The handler then awaits the receipt reads.
\* When the read of the request form raises, the outer handler (lines 260-268)
\* removes the directory and answers.
ExtractTripBegin(sid) ==
    /\ request_pc[sid] = "new"
    /\ \A other \in Sids : other < sid => request_pc[other] # "new"
    /\ \E read_raises \in BOOLEAN :
          IF read_raises
          THEN /\ request_pc' = [request_pc EXCEPT ![sid] = "done"]
               /\ response' = ExtractResponse(sid, "error")
               /\ errors' = UnexpectedError(NoErrors)
               /\ raised' = TRUE
               /\ UNCHANGED <<temp_dirs, uploads>>
          ELSE /\ request_pc' = [request_pc EXCEPT ![sid] = "saved"]
               /\ temp_dirs' = temp_dirs \cup {sid}
               /\ uploads' = sid
               /\ UNCHANGED <<response, errors, raised>>
    /\ UNCHANGED <<verification_sessions, filled_form, output_form,
                   GEMINI_API_KEY, removed, submitted, process_pc, process_temp_dir,
                   main_entered, downloadVars>>

\* the session record of lines 235-245
SessionRecord(sid, hin, ruck, hot) ==
    [temp_dir |-> sid,
     hinreise_instance |-> DataOf(hin),
     ruckreise_instance |-> DataOf(ruck),
     hotel_instance |-> DataOf(hot),
     extracted_data |-> [hinreise |-> DataOf(hin), ruckreise |-> DataOf(ruck),
                         hotel |-> DataOf(hot)]]

\* shutil.rmtree(temp_dir, ignore_errors=True)
RmTree(dirs, dir) == dirs \ {dir}

\* the mutant's constructor accepts a missing credential
SetupGeminiNeverRaises(key) == FALSE

\* _setup_gemini, called by each extractor's __init__: ValueError without
\* GEMINI_API_KEY (hinreise.py lines 23-29)
SetupGeminiRaises(key) == ~key

\* extract_trip, lines 186-268, in one piece (no await): the profile, the four
\* pipeline steps, the session insert and the response
ExtractTripPipeline(sid) ==
    /\ request_pc[sid] = "saved"
    /\ \E profile_kind \in {"absent", "nondict"}, case \in ExtractorCases :
        LET hin == case.hinreise
            ruck == case.ruckreise
            hot == case.hotel
            profile_raises == profile_kind = "nondict"
            antrag_raises == uploads = NoUpload
            ctor_raises == SetupGeminiRaises(GEMINI_API_KEY)
            main_raises == "raise" \in {hin, ruck, hot}
            pipeline_raises == antrag_raises \/ ctor_raises \/ main_raises
            response_raises == "nondict" \in {hin, ruck, hot}
        IN  /\ filled_form' =
                   IF profile_raises THEN filled_form
                   ELSE IF antrag_raises THEN NoFile
                   ELSE FreshForm(uploads)
            /\ IF profile_raises \/ pipeline_raises
               THEN /\ temp_dirs' = RmTree(temp_dirs, sid)
                    /\ response' = ExtractResponse(sid, "error")
                    /\ errors' = IF profile_raises THEN UnexpectedError(NoErrors)
                                 ELSE PipelineProcessingError(NoErrors)
                    /\ raised' = TRUE
                    /\ UNCHANGED verification_sessions
               ELSE /\ verification_sessions' =
                           [x \in DOMAIN verification_sessions \cup {sid} |->
                               IF x = sid THEN SessionRecord(sid, hin, ruck, hot)
                               ELSE verification_sessions[x]]
                    /\ IF response_raises
                       THEN /\ temp_dirs' = RmTree(temp_dirs, sid)
                            /\ response' = ExtractResponse(sid, "error")
                            /\ errors' = UnexpectedError(NoErrors)
                            /\ raised' = TRUE
                       ELSE /\ temp_dirs' = temp_dirs
                            /\ response' = ExtractResponse(sid, "ok")
                            /\ errors' = NoErrors
                            /\ raised' = FALSE
            /\ main_entered' = IF profile_raises \/ antrag_raises \/ ctor_raises
                               THEN main_entered ELSE main_entered \cup {sid}
    /\ request_pc' = [request_pc EXCEPT ![sid] = "done"]
    /\ UNCHANGED <<uploads, output_form, GEMINI_API_KEY, removed, submitted,
                   process_pc, process_temp_dir, downloadVars>>

SubmitResponse(sid, status) == [op |-> "submit_verified", status |-> status]

\* the mutant lets a non-empty snapshot replace whatever the instance holds
RestoreSnapshotWins(cached, snapshot) ==
    IF snapshot # EmptyData THEN snapshot ELSE cached

\* submit_verified, lines 298-302: an empty cached extraction is replaced by a
\* non-empty snapshot
Restore(cached, snapshot) ==
    IF cached = EmptyData /\ snapshot # EmptyData THEN snapshot ELSE cached

\* <extractor>.fill_with_verified_data(verified): the verified values over the
\* cached extraction, written into filled_form.pdf in place; nothing to write
\* returns without touching the file (hotel.fill_pdf_directly)
FillWithVerifiedData(form, category, cached, verified) ==
    IF cached = NonDict THEN [raised |-> TRUE, form |-> form]
    ELSE LET data == Merge(cached, verified)
         IN  IF data = EmptyData THEN [raised |-> FALSE, form |-> form]
             ELSE IF form = NoFile THEN [raised |-> TRUE, form |-> form]
             ELSE [raised |-> FALSE,
                   form |-> [form EXCEPT ![category] = Merge(form[category], data)]]

\* the HTTPException(404) of lines 283-287, treated as success by the mutant
SubmitNotFoundAsOk(sid) ==
    /\ response' = SubmitResponse(sid, "ok")
    /\ output_form' = FreshForm(NoUpload)
    /\ errors' = NoErrors
    /\ raised' = FALSE
    /\ UNCHANGED <<verification_sessions, temp_dirs, request_pc, uploads, filled_form,
                   GEMINI_API_KEY, removed, submitted, process_pc, process_temp_dir,
                   main_entered, downloadVars>>

\* submit_verified, lines 283-287
SubmitNotFound(sid) ==
    /\ response' = SubmitResponse(sid, "not_found")
    /\ errors' = NoErrors
    /\ raised' = FALSE
    /\ UNCHANGED <<verification_sessions, temp_dirs, request_pc, uploads, filled_form,
                   output_form, GEMINI_API_KEY, removed, submitted, process_pc,
                   process_temp_dir, main_entered, downloadVars>>

\* the mutant deletes the session record and leaves its directory
CleanUpSessionDirKept(dirs, session) == dirs

\* lines 348-350 and 372-374: rmtree of the session's temp_dir if it exists
CleanUpSessionDir(dirs, session) == RmTree(dirs, session.temp_dir)

\* the mutant's delete empties the table
DelSessionAll(sessions, sid) == EmptyDict

\* del verification_sessions[session_id]
DelSession(sessions, sid) == [x \in DOMAIN sessions \ {sid} |-> sessions[x]]

\* submit_verified, lines 279-380, in one piece (no await)
SubmitVerified(sid, verified) ==
    IF sid \notin DOMAIN verification_sessions
    THEN SubmitNotFound(sid)
    ELSE
      LET session == verification_sessions[sid]
          hin_cached == Restore(session.hinreise_instance, session.extracted_data.hinreise)
          ruck_cached == Restore(session.ruckreise_instance, session.extracted_data.ruckreise)
          hot_cached == Restore(session.hotel_instance, session.extracted_data.hotel)
          step1 == FillWithVerifiedData(filled_form, "hinreise", hin_cached, verified.hinreise)
          step2 == IF step1.raised THEN step1
                   ELSE FillWithVerifiedData(step1.form, "ruckreise", ruck_cached,
                                             verified.ruckreise)
          step3 == IF step2.raised THEN step2
                   ELSE FillWithVerifiedData(step2.form, "hotel", hot_cached, verified.hotel)
      IN  /\ submitted' = submitted \cup {sid}
          /\ IF step3.raised
             THEN \* lines 368-380
                  /\ filled_form' = step3.form
                  /\ temp_dirs' = CleanUpSessionDir(temp_dirs, session)
                  /\ verification_sessions' = DelSession(verification_sessions, sid)
                  /\ removed' = removed \cup {sid}
                  /\ response' = SubmitResponse(sid, "error")
                  /\ errors' = UnexpectedError(NoErrors)
                  /\ raised' = TRUE
                  /\ UNCHANGED <<uploads, output_form, output_cleaned>>
             ELSE IF step3.form # NoFile
             THEN \* lines 327-359
                  /\ output_form' = step3.form
                  /\ output_cleaned' = FALSE
                  /\ uploads' = NoUpload
                  /\ filled_form' = NoFile
                  /\ temp_dirs' = CleanUpSessionDir(temp_dirs, session)
                  /\ verification_sessions' = DelSession(verification_sessions, sid)
                  /\ removed' = removed \cup {sid}
                  /\ response' = SubmitResponse(sid, "ok")
                  /\ errors' = NoErrors
                  /\ raised' = FALSE
             ELSE \* lines 360-366
                  /\ response' = SubmitResponse(sid, "error")
                  /\ errors' = NotGenerated(NoErrors)
                  /\ raised' = FALSE
                  /\ verification_sessions' =
                         [verification_sessions EXCEPT
                             ![sid].hinreise_instance = hin_cached,
                             ![sid].ruckreise_instance = ruck_cached,
                             ![sid].hotel_instance = hot_cached]
                  /\ UNCHANGED <<temp_dirs, uploads, filled_form, output_form, removed,
                                 output_cleaned>>
          /\ UNCHANGED <<request_pc, GEMINI_API_KEY, process_pc, process_temp_dir,
                         main_entered, cleanup_pending>>

\* the verified data one submit_verified call is drawn over
VerifiedRequests ==
    {[hinreise |-> EmptyData, ruckreise |-> EmptyData, hotel |-> EmptyData],
     [hinreise |-> [cost |-> "v"], ruckreise |-> [cost |-> "v"], hotel |-> [cost |-> "v"]],
     [hinreise |-> EmptyData, ruckreise |-> EmptyData, hotel |-> [cost |-> "v"]]}

\* the request form a process_trip call uploads
ProcessUpload == MaxSessions + 1

ProcessResponse(status) == [op |-> "process_trip", status |-> status]

\* process_trip, lines 417-452: the TemporaryDirectory, the request form written to
\* uploads/Dienstreiseantrag.pdf, then the awaited receipt reads.  When the read of
\* the request form raises, the outer handler (lines 545-551) answers and the with
\* block removes the directory.
ProcessTripBegin ==
    /\ process_pc = "idle"
    /\ \E read_raises \in BOOLEAN :
          IF read_raises
          THEN /\ response' = ProcessResponse("error")
               /\ errors' = UnexpectedError(NoErrors)
               /\ raised' = TRUE
               /\ UNCHANGED <<process_pc, process_temp_dir, uploads>>
          ELSE /\ process_pc' = "saved"
               /\ process_temp_dir' = TRUE
               /\ uploads' = ProcessUpload
               /\ UNCHANGED <<response, errors, raised>>
    /\ UNCHANGED <<verification_sessions, temp_dirs, request_pc, filled_form, output_form,
                   GEMINI_API_KEY, removed, submitted, main_entered, downloadVars>>

\* hotel.main(fill_pdf=True), lines 168-193: the extraction is written into
\* filled_form.pdf in place; hinreise.main and ruckreise.main only extract
ExtractAndFill(form, category, outcome) ==
    IF outcome = "raise" THEN [raised |-> TRUE, form |-> form]
    ELSE IF category # "hotel" \/ outcome = "empty" THEN [raised |-> FALSE, form |-> form]
    ELSE IF outcome = "nondict" \/ form = NoFile THEN [raised |-> TRUE, form |-> form]
    ELSE [raised |-> FALSE,
          form |-> [form EXCEPT ![category] = Merge(form[category], DataOf(outcome))]]

\* process_trip, lines 454-551, in one piece (no await): the profile, the four
\* pipeline steps, the copy to output/ and the clean-up; leaving the with block
\* removes the TemporaryDirectory on every path
ProcessTripPipeline ==
    /\ process_pc = "saved"
    /\ \E profile_kind \in {"absent", "nondict"}, case \in ExtractorCases :
        LET profile_raises == profile_kind = "nondict"
            antrag_raises == uploads = NoUpload
            ctor_raises == SetupGeminiRaises(GEMINI_API_KEY)
            written == IF profile_raises THEN filled_form
                       ELSE IF antrag_raises THEN NoFile
                       ELSE FreshForm(uploads)
            step1 == IF profile_raises \/ antrag_raises \/ ctor_raises
                     THEN [raised |-> TRUE, form |-> written]
                     ELSE ExtractAndFill(written, "hinreise", case.hinreise)
            step2 == IF step1.raised THEN step1
                     ELSE ExtractAndFill(step1.form, "ruckreise", case.ruckreise)
            step3 == IF step2.raised THEN step2
                     ELSE ExtractAndFill(step2.form, "hotel", case.hotel)
        IN  /\ main_entered' = IF profile_raises \/ antrag_raises \/ ctor_raises
                               THEN main_entered ELSE main_entered \cup {ProcessUpload}
            /\ IF step3.raised
               THEN \* lines 494-500
                    /\ filled_form' = step3.form
                    /\ response' = ProcessResponse("error")
                    /\ errors' = PipelineProcessingError(NoErrors)
                    /\ raised' = TRUE
                    /\ UNCHANGED <<uploads, output_form, output_cleaned>>
               ELSE IF step3.form # NoFile
               THEN \* lines 504-528
                    /\ output_form' = step3.form
                    /\ output_cleaned' = FALSE
                    /\ uploads' = NoUpload
                    /\ filled_form' = NoFile
                    /\ response' = ProcessResponse("ok")
                    /\ errors' = NoErrors
                    /\ raised' = FALSE
               ELSE \* lines 529-543
                    /\ uploads' = NoUpload
                    /\ filled_form' = NoFile
                    /\ response' = ProcessResponse("error")
                    /\ errors' = NotGenerated(NoErrors)
                    /\ raised' = FALSE
                    /\ UNCHANGED <<output_form, output_cleaned>>
    /\ process_pc' = "idle"
    /\ process_temp_dir' = FALSE
    /\ UNCHANGED <<verification_sessions, temp_dirs, request_pc, GEMINI_API_KEY,
                   removed, submitted, cleanup_pending>>

DownloadResponse(status) == [op |-> "download", status |-> status]

\* the mutant's clean-up leaves the file where it is
RmTreeOutputKept(form) == form

\* cleanup_output, lines 568-574: shutil.rmtree(output_dir)
RmTreeOutput(form) == NoFile

\* download_filled_form, lines 553-581: 404 without output/output_form.pdf, the
\* file and a scheduled cleanup_output otherwise
DownloadFilledForm ==
    /\ IF output_form = NoFile
       THEN /\ response' = DownloadResponse("not_found")
            /\ UNCHANGED cleanup_pending
       ELSE /\ response' = DownloadResponse("ok")
            /\ cleanup_pending' = TRUE
    /\ errors' = NoErrors
    /\ raised' = FALSE
    /\ UNCHANGED <<verification_sessions, temp_dirs, request_pc, uploads, filled_form,
                   output_form, GEMINI_API_KEY, removed, submitted, process_pc,
                   process_temp_dir, main_entered, output_cleaned>>

\* the background task cleanup_output, run once the response has been sent; a
\* task scheduled by a second download does what this one does
CleanupOutput ==
    /\ cleanup_pending
    /\ cleanup_pending' = FALSE
    /\ output_form' = RmTreeOutput(output_form)
    /\ output_cleaned' = TRUE
    /\ UNCHANGED <<verification_sessions, temp_dirs, request_pc, uploads, filled_form,
                   GEMINI_API_KEY, response, removed, submitted, process_pc,
                   process_temp_dir, errors, raised, main_entered>>

DownloadFilledFormAny == DownloadFilledForm /\ UNCHANGED <<resolveVars, ingestVars, extractVars, prepareVars, fallbackVars, pipelineVars>>
CleanupOutputAny == CleanupOutput /\ UNCHANGED <<resolveVars, ingestVars, extractVars, prepareVars, fallbackVars, pipelineVars>>
ExtractTripBeginAny == \E sid \in Sids : ExtractTripBegin(sid) /\ UNCHANGED <<resolveVars, ingestVars, extractVars, prepareVars, fallbackVars, pipelineVars>>
ProcessTripBeginAny == ProcessTripBegin /\ UNCHANGED <<resolveVars, ingestVars, extractVars, prepareVars, fallbackVars, pipelineVars>>
ProcessTripPipelineAny == ProcessTripPipeline /\ UNCHANGED <<resolveVars, ingestVars, extractVars, prepareVars, fallbackVars, pipelineVars>>
ExtractTripPipelineAny == \E sid \in Sids : ExtractTripPipeline(sid) /\ UNCHANGED <<resolveVars, ingestVars, extractVars, prepareVars, fallbackVars, pipelineVars>>
SubmitVerifiedAny ==
    \E sid \in Sids, verified \in VerifiedRequests :
        SubmitVerified(sid, verified) /\ UNCHANGED <<resolveVars, ingestVars, extractVars, prepareVars, fallbackVars, pipelineVars>>

Init ==
    /\ InitSession
    /\ IdleResolve
    /\ IdleIngest
    /\ IdleExtract
    /\ IdlePrepare
    /\ IdleFallback
    /\ IdlePipeline

Next ==
    \/ ExtractTripBeginAny
    \/ ExtractTripPipelineAny
    \/ SubmitVerifiedAny
    \/ ProcessTripBeginAny
    \/ ProcessTripPipelineAny
    \/ DownloadFilledFormAny
    \/ CleanupOutputAny

Spec == Init /\ [][Next]_vars

\* the server runs a handler it has started to its end; whether a client ever
\* sends a request is up to the client
FairSpec ==
    /\ Init
    /\ [][Next]_vars
    /\ \A sid \in Sids :
          WF_vars(ExtractTripPipeline(sid) /\ UNCHANGED <<resolveVars, ingestVars, extractVars, prepareVars, fallbackVars, pipelineVars>>)
    /\ WF_vars(ProcessTripPipelineAny)
    /\ WF_vars(CleanupOutputAny)

-----------------------------------------------------------------------------
(* Claims on the session workflow *)

\* C5: submit_verified on an id that is not in the session table answers
\* not-found, never ok, and leaves the table, the temporary directories and the
\* artifacts as they were.
C5_UnknownSessionNotFound ==
    [][\A sid \in Sids, verified \in VerifiedRequests :
          (sid \notin DOMAIN verification_sessions /\ SubmitVerified(sid, verified)) =>
              /\ response' = SubmitResponse(sid, "not_found")
              /\ response'.status # "ok"
              /\ UNCHANGED <<verification_sessions, temp_dirs, uploads, filled_form,
                             output_form>>]_vars

\* a not-found answer while one session has been removed and another is pending
C5_Witness ==
    /\ response = SubmitResponse(0, "not_found")
    /\ removed # {}
    /\ DOMAIN verification_sessions # {}
    /\ output_form # NoFile

C7_RemovedIsAbsorbingAndClean ==
    \A sid \in removed :
        /\ sid \notin DOMAIN verification_sessions
        /\ sid \notin temp_dirs

\* one session was removed and an extract_trip that began afterwards has stored
\* another
C7_Witness ==
    \E sid \in removed, later \in DOMAIN verification_sessions :
        /\ sid < later
        /\ later \in temp_dirs
        /\ response = ExtractResponse(later, "ok")

CreatedOk(sid) ==
    /\ sid \in DOMAIN verification_sessions
    /\ \A c \in Categories : verification_sessions[sid].extracted_data[c] # NonDict
    /\ sid \notin submitted

-----------------------------------------------------------------------------
(* Claims on the three endpoints *)

\* a step with which the extract_trip call that owns sid returns its response
ExtractTripEnds(sid) ==
    /\ ExtractTripBegin(sid) \/ ExtractTripPipeline(sid)
    /\ request_pc'[sid] = "done"

\* a step with which the process_trip call in flight returns its response
ProcessTripEnds ==
    /\ ProcessTripBegin \/ ProcessTripPipeline
    /\ process_pc' = "idle"

C12_UploadsDoNotOutliveRequest ==
    [][ProcessTripEnds =>
          /\ uploads' # ProcessUpload
          /\ filled_form' # NoFile => filled_form'.antrag # ProcessUpload]_vars

\* C13: in every step, whatever handlers are in flight, each session in the table
\* stays in the table with an unchanged record unless the step is a
\* submit_verified on that very id, and an extract_trip that answers ok has
\* inserted the record of its own id.
C13_NoLostUpdate ==
    [][/\ \A sid \in DOMAIN verification_sessions :
             \/ /\ sid \in DOMAIN verification_sessions'
                /\ verification_sessions'[sid] = verification_sessions[sid]
             \/ \E verified \in VerifiedRequests : SubmitVerified(sid, verified)
       /\ \A sid \in Sids :
             (ExtractTripPipeline(sid) /\ response'.status = "ok") =>
                 /\ sid \in DOMAIN verification_sessions'
                 /\ verification_sessions'[sid].temp_dir = sid]_vars

\* a later session was submitted and removed while an earlier one, with receipts
\* extracted, is still in the table with its own record
C13_Witness ==
    \E kept \in DOMAIN verification_sessions, gone \in removed :
        /\ kept < gone
        /\ verification_sessions[kept].temp_dir = kept
        /\ verification_sessions[kept].extracted_data.hinreise = ExtractedFields
        /\ response.op = "submit_verified"
        /\ response.status = "ok"

\* C14: when a step raised inside extract_trip, submit_verified on a session in
\* the table, or process_trip, the request ended with a response whose status is
\* error and whose errors list is not empty.
C14_FailuresAreValues ==
    raised =>
        /\ response.op \in {"extract_trip", "submit_verified", "process_trip"}
        /\ response.status = "error"
        /\ Len(errors) > 0

\* a fill step of submit_verified raised on a session that was in the table
C14_Witness ==
    /\ raised
    /\ response = SubmitResponse(0, "error")
    /\ submitted \cap removed # {}
    /\ errors = UnexpectedError(NoErrors)

-----------------------------------------------------------------------------
(* Claims on the derived fields of the resolver *)

\* the cost-center of the request extraction, empty when the form has none
RequestKostenstelle == IF "Kostenstelle" \in DOMAIN pdf_dict THEN pdf_dict["Kostenstelle"] ELSE <<>>

\* the approval value before any override: the request's date and a blank
UnoverriddenApproval ==
    (IF "Datum_6" \in DOMAIN pdf_dict THEN pdf_dict["Datum_6"] ELSE <<>>) \o <<" ">>

\* C15: Drittmittelprojekt is "P" followed by the request's cost-center, and "P"
\* alone, without an exception, when the request extraction has no cost-center;
\* in the backend resolver and in the command-line resolver.
C15_DrittmittelprojektIsPrefixed ==
    /\ abrechnung_json # NotRun =>
           abrechnung_json["Drittmittelprojekt"] = <<"P">> \o RequestKostenstelle
    /\ (cli_json # NotRun /\ "Datum_6" \in DOMAIN pdf_dict) =>
           /\ cli_json # Raised
           /\ cli_json["Drittmittelprojekt"] = <<"P">> \o RequestKostenstelle

\* C16: with a supervisor override supplied (any string, not None), the approval
\* field is the first 11 characters of the un-overridden value followed by
\* exactly the override.
C16_OverrideKeepsDatePrefix ==
    (abrechnung_json # NotRun /\ supervisor_name # None) =>
        abrechnung_json["Genehmigung_der_Dienstreise_am__von"] =
            Prefix(UnoverriddenApproval, 11) \o supervisor_name

\* C17: Tagegeld is "nein" in every field set antrag.main produces.
C17_TagegeldIsNein ==
    /\ abrechnung_json # NotRun => abrechnung_json["Tagegeld"] = <<"n", "e", "i", "n">>
    /\ other_json # NotRun => other_json["Tagegeld"] = <<"n", "e", "i", "n">>
    /\ first_form # NotRun => first_form["Tagegeld"] = <<"n", "e", "i", "n">>

\* both resolver runs done, with a profile value and a supervisor override in play
C17_Witness ==
    /\ abrechnung_json # NotRun
    /\ other_json # NotRun
    /\ ~user_profile.isNone
    /\ ~other_profile.isNone
    /\ Truthy(supervisor_name)

\* C18: a second run of antrag.main on the same profile, request extraction and
\* override leaves the same field set in filled_form.pdf as the first run,
\* whatever file either run found in place.
C18_ResolutionIsDeterministic ==
    again_form # NotRun => again_form = first_form

\* the second run is done, on a profile value that wins over the request's value
C18_Witness ==
    /\ again_form # NotRun
    /\ again_form = abrechnung_json
    /\ ~user_profile.isNone
    /\ \E k \in IdentityKeys : NonEmptyAfterTrim(RawProfileValue(user_profile, k))

-----------------------------------------------------------------------------
(* One receipt extraction: the end of hinreise.main, ruckreise.main and       *)
(* hotel.main, which turn the vision model's answer into the returned mapping, *)
(* and what extract_trip reports to the caller for it.                        *)

\* JSON values as json.loads returns them
JsonNull == [t |-> "null"]
JsonNumber == [t |-> "number"]
JsonString(s) == [t |-> "string", s |-> s]
JsonObject(d) == [t |-> "object", d |-> d]
JsonList(items) == [t |-> "list", items |-> items]

\* a monetary field and another field of the journey prompt (hinreise.py lines
\* 176-192); the fields of the other two prompts are treated alike by the code
MonetaryKey == "Flugzeug_Hinreise"
ReceiptKeys == {MonetaryKey, "Hinreise_von"}

Scalars == {JsonNull, JsonNumber, JsonString(<<>>), JsonString(<<"9">>)}

Objects == {JsonObject(d) : d \in UNION {[S -> Scalars] : S \in SUBSET ReceiptKeys}}

JsonValues ==
    Objects \cup Scalars \cup {JsonList(<<>>)}
    \cup {JsonList(<<x>>) : x \in Objects \cup Scalars}

\* what get_gemini_vision_response returns: None, an empty text, text that is
\* not JSON, or JSON text
VisionResponses ==
    {[kind |-> "none"], [kind |-> "empty"], [kind |-> "text"]}
    \cup {[kind |-> "json", value |-> v] : v \in JsonValues}

\* Python's truth value of a parsed JSON value
PyTruthy(v) ==
    CASE v.t = "null" -> FALSE
      [] v.t = "number" -> TRUE
      [] v.t = "string" -> v.s # <<>>
      [] v.t = "object" -> v.d # EmptyDict
      [] v.t = "list" -> v.items # <<>>

\* parsed_response[0]: the first item of a list, the first character of a string,
\* KeyError on an object, TypeError on a number
Index0(v) ==
    CASE v.t = "list" -> v.items[1]
      [] v.t = "string" -> JsonString(<<Head(v.s)>>)
      [] OTHER -> Raised

\* hinreise.main lines 198-219, ruckreise.main lines 186-207, hotel.main lines
\* 168-193: the returned extracted_data
ExtractorMain(text) ==
    IF text.kind # "json" THEN JsonObject(EmptyDict)
    ELSE IF PyTruthy(text.value) THEN Index0(text.value)
    ELSE JsonObject(EmptyDict)

\* extract_trip, lines 224-268: what the caller gets for one extractor's data
Report(data) ==
    IF data = Raised
    THEN [status |-> "error", errors |-> PipelineProcessingError(NoErrors),
          data |-> EmptyDict]
    ELSE IF ~PyTruthy(data)
    THEN [status |-> "ok", errors |-> NoErrors, data |-> EmptyDict]
    ELSE IF data.t # "object"
    THEN [status |-> "error", errors |-> UnexpectedError(NoErrors), data |-> EmptyDict]
    ELSE [status |-> "ok", errors |-> NoErrors, data |-> data.d]

InitExtract ==
    /\ extractor \in Categories
    /\ gemini_response_text \in VisionResponses
    /\ extracted_data = NotRun
    /\ reported = NotRun
    /\ IdleResolve
    /\ IdleIngest
    /\ IdleSession
    /\ IdlePrepare
    /\ IdleFallback
    /\ IdlePipeline

\* <extractor>.main on the answer of the vision model
RunMain ==
    /\ extractor \in Categories
    /\ extracted_data = NotRun
    /\ extracted_data' = ExtractorMain(gemini_response_text)
    /\ UNCHANGED <<extractor, gemini_response_text, reported>>
    /\ UNCHANGED <<resolveVars, ingestVars, sessionVars, prepareVars, fallbackVars, pipelineVars>>

ExtractTripReport ==
    /\ extracted_data # NotRun
    /\ reported = NotRun
    /\ reported' = Report(extracted_data)
    /\ UNCHANGED <<extractor, gemini_response_text, extracted_data>>
    /\ UNCHANGED <<resolveVars, ingestVars, sessionVars, prepareVars, fallbackVars, pipelineVars>>

NextExtract == RunMain \/ ExtractTripReport

SpecExtract == InitExtract /\ [][NextExtract]_vars

\* the monetary field is missing from the mapping, or null, or the empty string
MonetaryFieldEmpty(d) ==
    \/ MonetaryKey \notin DOMAIN d
    \/ d[MonetaryKey] \in {JsonNull, JsonString(<<>>)}

\* C19: when the extraction of a receipt has the monetary field missing or empty,
\* the response to the caller carries a warning or an error; the empty value is
\* not passed on silently.
C19_EmptyMonetaryFieldIsFlagged ==
    (/\ reported # NotRun
     /\ extracted_data # Raised
     /\ extracted_data.t = "object"
     /\ extracted_data.d # EmptyDict
     /\ MonetaryFieldEmpty(extracted_data.d)) =>
        Len(reported.errors) > 0

\* C20: every value of the mapping an extractor returns is a string; no value is
\* null or a number.
C20_AbsenceIsEmptyString ==
    (/\ extracted_data # NotRun
     /\ extracted_data # Raised
     /\ extracted_data.t = "object") =>
        \A k \in DOMAIN extracted_data.d : extracted_data.d[k].t = "string"

\* the answer, after the code fence is stripped, parses to a non-empty JSON list
IsNonEmptyList(text) ==
    /\ text.kind = "json"
    /\ text.value.t = "list"
    /\ text.value.items # <<>>

\* C21: main returns without raising for every answer of the vision model: the
\* first element of the list when the answer parses to a non-empty JSON list,
\* the empty mapping in every other case.
C21_MainNeverRaises ==
    extracted_data # NotRun =>
        /\ extracted_data # Raised
        /\ extracted_data = IF IsNonEmptyList(gemini_response_text)
                            THEN gemini_response_text.value.items[1]
                            ELSE JsonObject(EmptyDict)

-----------------------------------------------------------------------------
(* Document preparation: hinreise.prepare_document_for_gemini and             *)
(* hinreise.prepare_all_documents.                                            *)

\* most documents in one call
MaxDocs == 2

\* most pages of one PDF
MaxPages == 2

\* what can be found at a path: nothing, a file with an unsupported extension, a
\* PDF of some pages, an image.  fails_at = 0: the conversion succeeds; k > 0: it
\* raises while page k is converted.
Files ==
    {[kind |-> "missing", pages |-> 0, fails_at |-> 0],
     [kind |-> "unsupported", pages |-> 1, fails_at |-> 0]}
    \cup {[kind |-> "pdf", pages |-> n, fails_at |-> k] : n \in 1..MaxPages, k \in 0..MaxPages}
    \cup {[kind |-> "image", pages |-> 1, fails_at |-> k] : k \in 0..1}

\* the payload of page j of the document at position path
ImagePart(path, j) == [path |-> path, page |-> j]

\* the mutant keeps the pages converted before the failure
PrepareDocumentKeepsPartial(path, file) ==
    IF file.kind \in {"missing", "unsupported"} THEN <<>>
    ELSE [j \in 1..(IF file.fails_at = 0 \/ file.fails_at > file.pages
                    THEN file.pages ELSE file.fails_at - 1) |-> ImagePart(path, j)]

\* prepare_document_for_gemini, lines 31-81
PrepareDocumentForGemini(path, file) ==
    IF file.kind \in {"missing", "unsupported"} THEN <<>>
    ELSE IF file.fails_at # 0 /\ file.fails_at <= file.pages THEN <<>>
    ELSE [j \in 1..file.pages |-> ImagePart(path, j)]

InitPrepare ==
    /\ \E n \in 0..MaxDocs : document_paths_list \in [1..n -> Files]
    /\ doc_index = 0
    /\ all_image_parts = <<>>
    /\ IdleResolve
    /\ IdleIngest
    /\ IdleSession
    /\ IdleExtract
    /\ IdleFallback
    /\ IdlePipeline

\* one turn of the loop of prepare_all_documents, lines 93-96
PrepareNextDocument ==
    /\ doc_index < Len(document_paths_list)
    /\ doc_index' = doc_index + 1
    /\ all_image_parts' = all_image_parts \o
           PrepareDocumentForGemini(doc_index', document_paths_list[doc_index'])
    /\ UNCHANGED document_paths_list
    /\ UNCHANGED <<resolveVars, ingestVars, sessionVars, extractVars, fallbackVars, pipelineVars>>

NextPrepare == PrepareNextDocument

SpecPrepare == InitPrepare /\ [][NextPrepare]_vars

\* the document at position i can be converted as a whole
Convertible(i) ==
    LET file == document_paths_list[i]
    IN  /\ file.kind \in {"pdf", "image"}
        /\ file.fails_at = 0 \/ file.fails_at > file.pages

\* C22: when the loop is through, a document that is missing, unsupported or
\* fails to convert has contributed nothing, every page of every other document
\* is there exactly once, and the payloads stand in document order and, within a
\* document, in page order.
C22_PreparationIsRecoverable ==
    doc_index = Len(document_paths_list) =>
        /\ \A x \in DOMAIN all_image_parts :
              /\ all_image_parts[x].path \in DOMAIN document_paths_list
              /\ Convertible(all_image_parts[x].path)
        /\ \A i \in DOMAIN document_paths_list :
              Convertible(i) =>
                 \A j \in 1..document_paths_list[i].pages :
                    Cardinality({x \in DOMAIN all_image_parts :
                                    all_image_parts[x] = ImagePart(i, j)}) = 1
        /\ \A x, y \in DOMAIN all_image_parts :
              x < y =>
                 \/ all_image_parts[x].path < all_image_parts[y].path
                 \/ /\ all_image_parts[x].path = all_image_parts[y].path
                    /\ all_image_parts[x].page < all_image_parts[y].page

\* a batch whose first document fails on its second page and whose second
\* document came through with both pages
C22_Witness ==
    /\ Len(document_paths_list) = 2
    /\ doc_index = 2
    /\ document_paths_list[1] = [kind |-> "pdf", pages |-> 2, fails_at |-> 2]
    /\ all_image_parts = <<ImagePart(2, 1), ImagePart(2, 2)>>

-----------------------------------------------------------------------------
(* Claims on the artifacts the requests share *)

C24_MissingCredentialIsFatal ==
    [][\A sid \in Sids :
          (~GEMINI_API_KEY /\ ExtractTripPipeline(sid)) =>
              /\ main_entered' = {}
              /\ response'.status = "error"
              /\ sid \notin DOMAIN verification_sessions'
              /\ sid \notin temp_dirs']_vars

\* an extract_trip that resolved the request form and then failed in a
\* constructor for want of the credential
C24_Witness ==
    /\ ~GEMINI_API_KEY
    /\ response = ExtractResponse(0, "error")
    /\ errors = PipelineProcessingError(NoErrors)
    /\ filled_form # NoFile
    /\ \E sid \in Sids : request_pc[sid] = "done" /\ sid \notin temp_dirs

-----------------------------------------------------------------------------
(* Claims on a malformed profile *)

\* request extractions the resolution is compared on
RequestExtractions == {EmptyDict, [pk \in PdfKeys |-> DefaultPdfValue(pk)]}

\* C25: a profile string that is not valid JSON does not stop the request: the
\* endpoint hands a profile to the resolver with which every identity field
\* resolves as it does without a profile.
C25_MalformedProfileIsNoProfile ==
    (raw_profile.kind = "invalid" /\ parsed_user_profile # NotRun) =>
        /\ parsed_user_profile # Raised
        /\ \A pdf \in RequestExtractions : \A k \in IdentityKeys :
              AntragMain(parsed_user_profile, pdf, None)[k] =
                  AntragMain(NoProfile, pdf, None)[k]

\* process_trip has parsed a malformed profile
C25_Witness ==
    /\ raw_profile.kind = "invalid"
    /\ parsed_user_profile = NoProfile
    /\ ingest_endpoint = "process_trip"

-----------------------------------------------------------------------------
(* Claims on interleaved requests *)

\* C26: requests are isolated: whatever other requests run between a request's
\* upload and its pipeline, the form a process_trip that answers ok hands out
\* is filled from the request form that call uploaded, and the intermediate
\* form an extract_trip that answers ok leaves for its session is filled from
\* the request form of that session.
C26_RequestsAreIsolated ==
    [][/\ (ProcessTripPipeline /\ response'.status = "ok") =>
              output_form'.antrag = ProcessUpload
       /\ \A sid \in Sids :
              (ExtractTripPipeline(sid) /\ response'.status = "ok") =>
                  filled_form'.antrag = sid]_vars

-----------------------------------------------------------------------------
(* The fallback of submit_verified on any session record *)

\* the order in which submit_verified handles the categories
CategoryOrder == <<"hinreise", "ruckreise", "hotel">>

\* session["<category>_instance"].extracted_data
InstanceData(session, c) ==
    CASE c = "hinreise" -> session.hinreise_instance
      [] c = "ruckreise" -> session.ruckreise_instance
      [] c = "hotel" -> session.hotel_instance

\* what an extractor instance may hold, and what a snapshot may hold
CachedValues == {EmptyData, ExtractedFields, [cost |-> "old"], NonDict}
SnapshotValues == {EmptyData, ExtractedFields, NonDict}

InitFallback ==
    /\ \E hin, ruck, hot \in CachedValues, snapshot \in [Categories -> SnapshotValues] :
          fallback_session = [temp_dir |-> 1,
                              hinreise_instance |-> hin,
                              ruckreise_instance |-> ruck,
                              hotel_instance |-> hot,
                              extracted_data |-> snapshot]
    /\ instance_extracted_data = [c \in Categories |-> InstanceData(fallback_session, c)]
    /\ fallback_pc = 0
    /\ IdleResolve
    /\ IdleIngest
    /\ IdleSession
    /\ IdleExtract
    /\ IdlePrepare
    /\ IdlePipeline

\* lines 295-302, 305-312 and 315-322: the fallback for the next category
FallbackRestore ==
    /\ fallback_pc < Len(CategoryOrder)
    /\ fallback_pc' = fallback_pc + 1
    /\ LET c == CategoryOrder[fallback_pc']
       IN  instance_extracted_data' =
               [instance_extracted_data EXCEPT
                   ![c] = Restore(@, fallback_session.extracted_data[c])]
    /\ UNCHANGED fallback_session
    /\ UNCHANGED <<resolveVars, ingestVars, sessionVars, extractVars, prepareVars,
                   pipelineVars>>

NextFallback == FallbackRestore

SpecFallback == InitFallback /\ [][NextFallback]_vars

\* C27: for each category submit_verified has handled, an instance whose cached
\* extraction was empty while the snapshot was not now holds the snapshot, and
\* an instance whose cached extraction was not empty holds what it held.
C27_FallbackRestoresSnapshot ==
    \A i \in 1..fallback_pc :
        LET c == CategoryOrder[i]
            cached == InstanceData(fallback_session, c)
            snapshot == fallback_session.extracted_data[c]
        IN  /\ (cached = EmptyData /\ snapshot # EmptyData) =>
                    instance_extracted_data[c] = snapshot
            /\ cached # EmptyData => instance_extracted_data[c] = cached

\* a session whose outbound instance lost its extraction and whose lodging
\* instance holds one that differs from the snapshot
C27_Witness ==
    /\ fallback_pc = 3
    /\ fallback_session.hinreise_instance = EmptyData
    /\ fallback_session.extracted_data["hinreise"] = ExtractedFields
    /\ instance_extracted_data["hinreise"] = ExtractedFields
    /\ fallback_session.hotel_instance = [cost |-> "old"]
    /\ fallback_session.extracted_data["hotel"] = ExtractedFields
    /\ instance_extracted_data["hotel"] = [cost |-> "old"]

-----------------------------------------------------------------------------
(* Claims on the download endpoint *)

\* C29: a download without a generated form answers not-found; a download that
\* hands out the form schedules the clean-up, the clean-up removes the form, and
\* once it has run a download answers not-found until a process_trip or a
\* submit_verified has answered ok again.
C29_DownloadCleansUp ==
    [][/\ DownloadFilledForm =>
              /\ (output_form = NoFile \/ output_cleaned) =>
                     response'.status = "not_found"
              /\ response'.status = "ok" => cleanup_pending'
       /\ CleanupOutput => output_form' = NoFile]_vars

\* a form was handed out and cleaned away, and the next download found nothing
C29_Witness ==
    /\ output_cleaned
    /\ ~cleanup_pending
    /\ response = DownloadResponse("not_found")

-----------------------------------------------------------------------------
(* One pipeline run, step by step *)

\* the order of the pipeline steps, lines 203-222 and 474-492
StepOrder == <<"antrag", "hinreise", "ruckreise", "hotel">>

\* self.response when hinreise.main returns: None without documents, payloads or
\* an answer of the vision model (hinreise.py lines 151-166 and 102-128), the
\* answer's text otherwise (line 215)
HinreiseResponse(outcome, answered) ==
    IF outcome = "empty" /\ ~answered THEN "None" ELSE "text"

\* the mutant's constructor forgets the response it is given
RuckreiseInitDropsResponse(hin_response) == "None"

\* ruckreise.__init__: self.response = response (ruckreise.py line 18)
RuckreiseInit(hin_response) == hin_response

\* what one run meets: the endpoint, the credential, whether the request form
\* was uploaded, what the extractors come to, and whether the vision model
\* answered the outbound extraction (it did when that extraction has a value)
PipelineInputs ==
    {in \in [endpoint : {"extract_trip", "process_trip"},
             key : BOOLEAN,
             upload : BOOLEAN,
             case : ExtractorCases,
             answered : BOOLEAN] :
        in.case.hinreise # "empty" => in.answered}

InitPipeline ==
    /\ pipeline_input \in PipelineInputs
    /\ pipeline_pc = "antrag"
    /\ steps = <<>>
    /\ hinreise_response = "unset"
    /\ ruckreise_response = "unset"
    /\ IdleResolve
    /\ IdleIngest
    /\ IdleSession
    /\ IdleExtract
    /\ IdlePrepare
    /\ IdleFallback

\* a step that raises ends the run (the except of lines 224-232 and 494-500)
StepDone(step, finished, next) ==
    /\ steps' = Append(steps, [step |-> step, finished |-> finished])
    /\ pipeline_pc' = IF finished THEN next ELSE "done"

\* lines 205-206 and 476-477: antrag(...).main() raises without the request form
AntragStep ==
    /\ pipeline_pc = "antrag"
    /\ StepDone("antrag", pipeline_input.upload, "hinreise")
    /\ UNCHANGED <<pipeline_input, hinreise_response, ruckreise_response>>
    /\ UNCHANGED <<resolveVars, ingestVars, sessionVars, extractVars, prepareVars,
                   fallbackVars>>

\* lines 210-211 and 481-482: the constructor, then main
HinreiseStep ==
    /\ pipeline_pc = "hinreise"
    /\ LET finished == /\ ~SetupGeminiRaises(pipeline_input.key)
                       /\ pipeline_input.case.hinreise # "raise"
       IN  /\ StepDone("hinreise", finished, "ruckreise")
           /\ hinreise_response' =
                  IF finished
                  THEN HinreiseResponse(pipeline_input.case.hinreise,
                                        pipeline_input.answered)
                  ELSE "unset"
    /\ UNCHANGED <<pipeline_input, ruckreise_response>>
    /\ UNCHANGED <<resolveVars, ingestVars, sessionVars, extractVars, prepareVars,
                   fallbackVars>>

\* lines 215-216 and 486-487: ruckreise(hinreise_instance.response, ...), then main
RuckreiseStep ==
    /\ pipeline_pc = "ruckreise"
    /\ ruckreise_response' = RuckreiseInit(hinreise_response)
    /\ StepDone("ruckreise", pipeline_input.case.ruckreise # "raise", "hotel")
    /\ UNCHANGED <<pipeline_input, hinreise_response>>
    /\ UNCHANGED <<resolveVars, ingestVars, sessionVars, extractVars, prepareVars,
                   fallbackVars>>

\* lines 220-221 and 491-492: process_trip's hotel.main also writes the form
HotelStep ==
    /\ pipeline_pc = "hotel"
    /\ LET hot == pipeline_input.case.hotel
           finished ==
               IF pipeline_input.endpoint = "extract_trip" THEN hot # "raise"
               ELSE ~ExtractAndFill(FreshForm(ProcessUpload), "hotel", hot).raised
       IN  StepDone("hotel", finished, "done")
    /\ UNCHANGED <<pipeline_input, hinreise_response, ruckreise_response>>
    /\ UNCHANGED <<resolveVars, ingestVars, sessionVars, extractVars, prepareVars,
                   fallbackVars>>

NextPipeline == AntragStep \/ HinreiseStep \/ RuckreiseStep \/ HotelStep

SpecPipeline == InitPipeline /\ [][NextPipeline]_vars

\* C28: the steps a request has started are the first steps of the order
\* request form, outbound, return, lodging, each started only when the one
\* before it ran to its end; the return extraction holds the response the
\* outbound extraction ended with, which is empty exactly when the vision
\* model gave none, and holds nothing before the outbound extraction has ended.
C28_StepsRunInOrder ==
    /\ Len(steps) <= Len(StepOrder)
    /\ \A i \in DOMAIN steps :
          /\ steps[i].step = StepOrder[i]
          /\ i < Len(steps) => steps[i].finished
    /\ Len(steps) >= 3 =>
          /\ steps[2].finished
          /\ hinreise_response = IF pipeline_input.answered THEN "text" ELSE "None"
          /\ ruckreise_response = hinreise_response
    /\ Len(steps) < 3 => ruckreise_response = "unset"

\* a run that went through all four steps with an outbound response
C28_Witness ==
    /\ pipeline_pc = "done"
    /\ Len(steps) = 4
    /\ steps[4].finished
    /\ ruckreise_response = "text"

-----------------------------------------------------------------------------
(* Claims on the session table and the response of extract_trip *)

====
